---- MODULE Spec2Model ----
(***************************************************************************)
(* Model of commands/log_printers.go: the log renderers of awless.         *)
(* Strings are sequences of bytes (naturals), so that formatting, joining, *)
(* splitting and byte-wise ordering are computed and not assumed.          *)
(***************************************************************************)
EXTENDS Integers, Sequences, FiniteSets

VARIABLES items, all, out, t, err, noColor, failAt, w, result, printer, pc

vars == <<items, all, out, t, err, noColor, failAt, w, result, printer, pc>>

alignVars == <<items, all, out>>
printVars == <<t, err, noColor, failAt, w, result, printer>>

(* ------------------------------ bounds -------------------------------- *)
\* largest label->count mapping given to the count aligner
MaxItems == 13
\* mappings of up to MaxSmall labels are enumerated exhaustively, with
\* every iteration order
MaxSmall == 3
\* number of count assignments tried on the larger mappings, minus one
MaxVariant == 2
\* longest error message given to the error formatter alone
MaxMsgLen == 4
\* records whose commands are every sequence of up to MaxCmds pool commands
MaxCmds == 2
\* longest generated command list
MaxLong == 13
\* the sink fails from its failAt-th write on, failAt in 1..MaxFailAt (0: never)
MaxFailAt == 3

(* ------------------------- byte-string helpers ------------------------ *)
\* the nil error, and the result of a print that has not run
None == <<-1>>
NotRun == <<-2>>

TAB == 9
NL == 10
SP == 32

RECURSIVE Itoa(_)
\* fmt's %d of a non-negative integer
Itoa(n) == IF n < 10 THEN <<48 + n>> ELSE Itoa(n \div 10) \o <<48 + (n % 10)>>

RECURSIVE Less(_, _)
\* Go's < on strings: byte-wise lexicographic
Less(a, b) ==
    IF b = <<>> THEN FALSE
    ELSE IF a = <<>> THEN TRUE
    ELSE IF a[1] < b[1] THEN TRUE
    ELSE IF a[1] > b[1] THEN FALSE
    ELSE Less(Tail(a), Tail(b))

RECURSIVE Insert(_, _)
Insert(x, s) ==
    IF s = <<>> THEN <<x>>
    ELSE IF Less(x, s[1]) THEN <<x>> \o s
    ELSE <<s[1]>> \o Insert(x, Tail(s))

SortStringsUnsorted(s) == s

RECURSIVE SortStrings(_)
\* sort.Strings: the elements in increasing order
SortStrings(s) == IF s = <<>> THEN <<>> ELSE Insert(s[1], SortStrings(Tail(s)))

RECURSIVE Join(_, _)
\* strings.Join
Join(elems, sep) ==
    IF elems = <<>> THEN <<>>
    ELSE IF Len(elems) = 1 THEN elems[1]
    ELSE elems[1] \o sep \o Join(Tail(elems), sep)

HasPrefix(s, p) == Len(s) >= Len(p) /\ SubSeq(s, 1, Len(p)) = p

RECURSIVE Index(_, _, _)
\* first position >= from at which sep occurs in s, 0 if none
Index(s, sep, from) ==
    IF from + Len(sep) - 1 > Len(s) THEN 0
    ELSE IF SubSeq(s, from, from + Len(sep) - 1) = sep THEN from
    ELSE Index(s, sep, from + 1)

RECURSIVE Split(_, _)
\* strings.Split with a non-empty separator
Split(s, sep) ==
    LET i == Index(s, sep, 1) IN
    IF i = 0 THEN <<s>>
    ELSE <<SubSeq(s, 1, i - 1)>> \o Split(SubSeq(s, i + Len(sep), Len(s)), sep)

RECURSIVE Concat(_)
\* the concatenation of a sequence of sequences
Concat(ss) == IF ss = <<>> THEN <<>> ELSE ss[1] \o Concat(Tail(ss))

RECURSIVE SetToSeq(_)
SetToSeq(S) ==
    IF S = {} THEN <<>>
    ELSE LET x == CHOOSE y \in S : TRUE IN <<x>> \o SetToSeq(S \ {x})

Rotate(s, r) == [i \in 1..Len(s) |-> s[((i - 1 + r) % Len(s)) + 1]]
Reverse(s) == [i \in 1..Len(s) |-> s[Len(s) + 1 - i]]

\* The orders in which a Go map with key set S may be ranged over. Every
\* permutation for small maps; for larger ones the rotations of one
\* enumeration and of its reverse.
Orders(S) ==
    IF Cardinality(S) <= MaxSmall
    THEN {f \in [1..Cardinality(S) -> S] : \A i, j \in 1..Cardinality(S) : f[i] = f[j] => i = j}
    ELSE LET base == SetToSeq(S) IN
         {Rotate(base, r) : r \in 0..(Len(base) - 1)}
             \cup {Rotate(Reverse(base), r) : r \in 0..(Len(base) - 1)}

(* --------------------------- count aligner ---------------------------- *)
CommaSpace == <<44, SP>>

max == 6

\* fmt.Sprintf("%d %s", count, actionentity)
CountLabel(count, actionentity) == Itoa(count) \o <<SP>> \o actionentity

\* the range loop over the map, in iteration order `order`
Project(m, order) == [i \in 1..Len(order) |-> CountLabel(m[order[i]], order[i])]

\* the loop over the full groups: all[i:i+max] for i = 0 .. len(all)/max - 1
FullRows(a) == [i \in 1..(Len(a) \div max) |-> Join(SubSeq(a, (i - 1) + 1, (i - 1) + max), CommaSpace)]

RemainRowAlways(a) == <<Join(SubSeq(a, Len(a) - (Len(a) % max) + 1, Len(a)), CommaSpace)>>

\* the remainder row: all[len(all)-remain:] when remain > 0
RemainRow(a) ==
    LET remain == Len(a) % max IN
    IF remain > 0 THEN <<Join(SubSeq(a, Len(a) - remain + 1, Len(a)), CommaSpace)>>
    ELSE <<>>

\* `all` after sort.Strings
SortedAll(m, order) == SortStrings(Project(m, order))

alignActionEntityCount(m, order) ==
    LET a == SortedAll(m, order) IN FullRows(a) \o RemainRow(a)

(* --------------------- inputs of the count aligner -------------------- *)
ActionAt(i) == <<97 + ((i - 1) % 4)>>
EntityAt(i) == <<97 + ((i - 1) \div 4)>>
\* "<action> <entity>", distinct for distinct i
LabelAt(i) == ActionAt(i) \o <<SP>> \o EntityAt(i)

CountSet == {1, 2, 10}
CountAt(i, v) == ((i * (v + 2)) % 11) + 1

SmallItems ==
    UNION {[D -> CountSet] : D \in SUBSET {LabelAt(i) : i \in 1..MaxSmall}}

BigItems ==
    {[l \in {LabelAt(i) : i \in 1..n} |->
        CountAt(CHOOSE i \in 1..n : LabelAt(i) = l, v)] :
            n \in 0..MaxItems, v \in 0..MaxVariant}

ItemsInputs == SmallItems \cup BigItems

NoRecord == [id |-> <<>>]

InitAlign ==
    /\ items \in ItemsInputs
    /\ all = <<>>
    /\ out = <<>>
    /\ pc = "ready"
    /\ t = NoRecord
    /\ err = None
    /\ noColor = TRUE
    /\ failAt = 0
    /\ w = <<>>
    /\ result = NotRun
    /\ printer = "none"

\* one call of alignActionEntityCount(items)
Align ==
    /\ pc = "ready"
    /\ \E order \in Orders(DOMAIN items) :
          /\ all' = SortedAll(items, order)
          /\ out' = alignActionEntityCount(items, order)
    /\ pc' = "done"
    /\ UNCHANGED <<items, printVars>>

NextAlign == Align

SpecAlign == InitAlign /\ [][NextAlign]_vars


(* ------------------------------ styling ------------------------------- *)
Reset == <<27, 91, 48, 109>>
\* the escape sequence selecting colour attribute `code` (a digit pair)
Esc(code) == <<27, 91>> \o code \o <<109>>
FgRed == <<51, 49>>
FgGreen == <<51, 50>>
FgYellow == <<51, 51>>
FgBlue == <<51, 52>>

\* a SprintFunc of the colour package: the text wrapped in the colour's
\* escape sequences, or unchanged when colours are off
Sprint(code, s) == IF noColor THEN s ELSE Esc(code) \o s \o Reset
renderRedFn(s) == Sprint(FgRed, s)
renderGreenFn(s) == Sprint(FgGreen, s)
renderYellowFn(s) == Sprint(FgYellow, s)
renderBlueFn(s) == Sprint(FgBlue, s)

(* ------------------------------ the sink ------------------------------ *)
\* One Write call on the io.Writer. The sink accepts it unless it has
\* started failing. src and cmd record which statement issued the call.
Put(log, data, src, cmd) ==
    Append(log, [data |-> data,
                 ok |-> (failAt = 0 \/ Len(log) + 1 < failAt),
                 src |-> src,
                 cmd |-> cmd])

\* fmt.Fprintln(w, s)
Fprintln(log, s, src, cmd) == Put(log, s \o <<NL>>, src, cmd)

\* color.New(code).Fprint(w, s): the colour is switched on and off around
\* the text with writes of their own, unless colours are off
ColorFprint(log, code, s, src) ==
    IF noColor THEN Put(log, s, src, 0)
    ELSE Put(Put(Put(log, Esc(code), src, 0), s, src, 0), Reset, src, 0)

(* --------------------------- error formatter -------------------------- *)
NotTab(c) == c # TAB
Indent == <<SP, SP, SP, SP>>

formatMultiLineErrMsgKeepTabs(msg) ==
    LET lines == Split(msg, <<NL>>) IN
    [i \in 1..Len(lines) |-> Indent \o lines[i]]

formatMultiLineErrMsg(msg) ==
    LET notabs == SelectSeq(msg, NotTab)
        lines == Split(notabs, <<NL>>) IN
    [i \in 1..Len(lines) |-> Indent \o lines[i]]

RECURSIVE writeLines(_, _, _)
\* the loop of writeError over the formatted lines
writeLines(log, msgs, cmd) ==
    IF msgs = <<>> THEN log
    ELSE writeLines(Fprintln(log, renderRedFn(<<TAB>> \o msgs[1]), "err", cmd),
                    Tail(msgs), cmd)

writeError(log, e, cmd) ==
    IF e # None THEN writeLines(log, formatMultiLineErrMsg(e), cmd) ELSE log

(* ----------------------- the execution record ------------------------- *)
\* CommandNode.Err() and CommandNode.Result()
Err(cmd) == cmd.CmdErr
Result(cmd) == cmd.CmdResult
\* CommandNode.String(): the display string of the command
String(cmd) == cmd.Action \o <<SP>> \o cmd.Entity

IsNonEmptyString(r) == r.kind = "string" /\ r.v # <<>>

NumKO(cmds) == Cardinality({i \in 1..Len(cmds) : Err(cmds[i]) # None})
AELabel(cmd) == cmd.Action \o <<SP>> \o cmd.Entity

\* TemplateExecution.Stats()
Stats(rec) ==
    LET cmds == rec.cmds
        labels == {AELabel(cmds[i]) : i \in 1..Len(cmds)} IN
    [CmdCount |-> Len(cmds),
     KOCount |-> NumKO(cmds),
     Oneliner |-> IF cmds = <<>> THEN <<>> ELSE String(cmds[Len(cmds)]),
     ActionEntityCount |->
        [l \in labels |-> Cardinality({i \in 1..Len(cmds) : AELabel(cmds[i]) = l})]]

\* console.HumanizeTime(t.Date()), the date being a number of hours ago
HumanizeTime(d) ==
    IF d < 24 THEN Itoa(d) \o <<SP, 104>> ELSE Itoa(d \div 24) \o <<SP, 100>>

\* t.Date().Format(time.Stamp), "Jan _2 15:04:05"
FormatStamp(d) ==
    <<74, 97, 110, SP, SP, 49, SP>> \o Itoa((d % 24) \div 10) \o Itoa((d % 24) % 10)
        \o <<58, 48, 48, 58, 48, 48>>

(* ------------------------------ headers ------------------------------- *)
richCountAtMostOne(log, stats) ==
    IF stats.CmdCount <= 1 THEN Put(log, stats.Oneliner, "header", 0)
    ELSE Put(log, Itoa(stats.CmdCount) \o <<SP, 99, 111, 109, 109, 97, 110, 100, 115>>, "header", 0)

\* the one-liner or "<N> commands"
richCount(log, stats) ==
    IF stats.CmdCount = 1 THEN Put(log, stats.Oneliner, "header", 0)
    ELSE Put(log, Itoa(stats.CmdCount) \o <<SP, 99, 111, 109, 109, 97, 110, 100, 115>>, "header", 0)

\* identifier, outcome tag, " - ", count phrase, " (<time> ago)"
richHead(log, rec) ==
    LET stats == Stats(rec)
        l1 == Put(log, renderYellowFn(rec.id), "header", 0)
        l2 == IF stats.KOCount = 0
              THEN ColorFprint(l1, FgGreen, <<SP, 79, 75>>, "header")
              ELSE ColorFprint(l1, FgRed, <<SP, 75, 79>>, "header")
        l3 == Put(l2, <<SP, 45, SP>>, "header", 0)
        l4 == richCount(l3, stats)
    IN Put(l4, <<SP, 40>> \o HumanizeTime(rec.date) \o <<SP, 97, 103, 111, 41>>, "header", 0)

By == <<SP, 98, 121, SP>>
WithProfile == <<SP, 119, 105, 116, 104, SP, 112, 114, 111, 102, 105, 108, 101, SP>>
In == <<SP, 105, 110, SP>>
NotRevertible == <<SP, 40, 110, 111, 116, SP, 114, 101, 118, 101, 114, 116, 105, 98, 108, 101, 41>>

richTailProfileFirst(log, rec) ==
    LET l1 == IF rec.profile # <<>>
              THEN Put(log, WithProfile \o renderBlueFn(rec.profile), "header", 0) ELSE log
        l2 == IF rec.author # <<>>
              THEN Put(l1, By \o renderBlueFn(rec.author), "header", 0) ELSE l1
        l3 == IF rec.locale # <<>>
              THEN Put(l2, In \o renderBlueFn(rec.locale), "header", 0) ELSE l2
    IN IF ~rec.revertible THEN Put(l3, NotRevertible, "header", 0) ELSE l3

\* author, profile, locale, revertibility
richTail(log, rec) ==
    LET l1 == IF rec.author # <<>>
              THEN Put(log, By \o renderBlueFn(rec.author), "header", 0) ELSE log
        l2 == IF rec.profile # <<>>
              THEN Put(l1, WithProfile \o renderBlueFn(rec.profile), "header", 0) ELSE l1
        l3 == IF rec.locale # <<>>
              THEN Put(l2, In \o renderBlueFn(rec.locale), "header", 0) ELSE l2
    IN IF ~rec.revertible THEN Put(l3, NotRevertible, "header", 0) ELSE l3

writeRichLogHeader(log, rec) == richTail(richHead(log, rec), rec)

writeSimpleLogHeader(log, rec) ==
    LET l1 == Put(log, <<73, 68, 58, SP>> \o renderYellowFn(rec.id)
                       \o <<TAB, 68, 97, 116, 101, 58, SP>> \o FormatStamp(rec.date), "simple", 0)
        l2 == IF rec.author # <<>>
              THEN Put(l1, <<TAB, 65, 117, 116, 104, 111, 114, 58, SP>> \o rec.author, "simple", 0)
              ELSE l1
        l3 == IF rec.locale # <<>>
              THEN Put(l2, <<TAB, 82, 101, 103, 105, 111, 110, 58, SP>> \o rec.locale, "simple", 0)
              ELSE l2
        l4 == IF rec.profile # <<>>
              THEN Put(l3, <<TAB, 80, 114, 111, 102, 105, 108, 101, 58, SP>> \o rec.profile, "simple", 0)
              ELSE l3
        l5 == IF ~rec.revertible THEN Put(l4, NotRevertible, "simple", 0) ELSE l4
    IN Fprintln(l5, <<>>, "simple", 0)

(* ------------------------------ printers ------------------------------ *)
KO == <<75, 79>>
OK == <<79, 75>>

fullStatusByResult(cmd) ==
    IF IsNonEmptyString(cmd.CmdResult) THEN renderRedFn(KO) ELSE renderGreenFn(OK)

\* fullLogPrinter: the status of one command
fullStatus(cmd) ==
    IF cmd.CmdErr # None THEN renderRedFn(KO) ELSE renderGreenFn(OK)

\* fullLogPrinter: the line of one command
fullLine(cmd) ==
    IF IsNonEmptyString(cmd.CmdResult)
    THEN Indent \o fullStatus(cmd) \o <<TAB>> \o String(cmd) \o <<TAB, 91>> \o cmd.CmdResult.v \o <<93>>
    ELSE Indent \o fullStatus(cmd) \o <<TAB>> \o String(cmd)

fullCmdErrorFirst(log, cmd, i) ==
    Fprintln(writeError(log, Err(cmd), i), fullLine(cmd), "cmd", i)

\* fullLogPrinter: the body of the loop for command number i
fullCmd(log, cmd, i) ==
    writeError(Fprintln(log, fullLine(cmd), "cmd", i), Err(cmd), i)

RECURSIVE fullLoop(_, _, _)
fullLoop(log, cmds, i) ==
    IF i > Len(cmds) THEN log ELSE fullLoop(fullCmd(log, cmds[i], i), cmds, i + 1)

fullPrint(log, rec) == fullLoop(writeSimpleLogHeader(log, rec), rec.cmds, 1)

\* defaultPrinter: the status of one command
defaultStatus(cmd) ==
    IF Err(cmd) # None THEN renderRedFn(KO) ELSE renderGreenFn(OK)

\* defaultPrinter: the line of one command
defaultLine(cmd) ==
    IF IsNonEmptyString(Result(cmd))
    THEN Indent \o defaultStatus(cmd) \o <<TAB>> \o cmd.Entity \o <<SP, 61, SP>> \o Result(cmd).v \o <<TAB>>
    ELSE Indent \o defaultStatus(cmd) \o <<TAB>> \o cmd.Action \o <<SP>> \o cmd.Entity \o <<TAB>>

\* defaultPrinter: the body of the loop for command number i
defaultCmd(log, cmd, i) ==
    writeError(Fprintln(log, defaultLine(cmd), "cmd", i), Err(cmd), i)

RECURSIVE defaultLoop(_, _, _)
defaultLoop(log, cmds, i) ==
    IF i > Len(cmds) THEN log ELSE defaultLoop(defaultCmd(log, cmds[i], i), cmds, i + 1)

defaultPrint(log, rec) == defaultLoop(log, rec.cmds, 1)

RECURSIVE statLines(_, _)
\* statLogPrinter: the loop over the aligned rows
statLines(log, rows) ==
    IF rows = <<>> THEN log
    ELSE statLines(Put(log, <<TAB>> \o rows[1] \o <<NL>>, "row", 0), Tail(rows))

statRowsFromOne(log, stats, order) ==
    IF stats.CmdCount >= 1
    THEN statLines(log, alignActionEntityCount(stats.ActionEntityCount, order))
    ELSE log

\* statLogPrinter: the rows, written when there is more than one command
statRows(log, stats, order) ==
    IF stats.CmdCount > 1
    THEN statLines(log, alignActionEntityCount(stats.ActionEntityCount, order))
    ELSE log

statPrint(log, rec, order) ==
    statRows(Fprintln(writeRichLogHeader(log, rec), <<>>, "nl", 0), Stats(rec), order)

shortPrint(log, rec) == writeRichLogHeader(log, rec)

idOnlyPrint(log, rec) == Put(log, rec.id, "id", 0)

\* the record's JSON document, a line
JSONOf(rec) == <<123>> \o rec.id \o <<125, NL>>
\* messages of the encoder's and of the sink's errors
MarshalErr == <<109>>
WriteErr == <<119>>
JSONPrinterPrefix == <<106, 115, 111, 110, SP, 112, 114, 105, 110, 116, 101, 114, 58, SP>>

(* ------------------------------ inputs -------------------------------- *)
ErrMsg == <<101, TAB, NL, 102>>
ResultSet ==
    {[kind |-> "nil", v |-> <<>>], [kind |-> "string", v |-> <<>>],
     [kind |-> "string", v |-> <<114>>], [kind |-> "int", v |-> <<>>]}
ResultAt(i) ==
    CASE i % 4 = 0 -> [kind |-> "nil", v |-> <<>>]
      [] i % 4 = 1 -> [kind |-> "string", v |-> <<114>>]
      [] i % 4 = 2 -> [kind |-> "int", v |-> <<>>]
      [] OTHER -> [kind |-> "string", v |-> <<>>]

\* every list of up to MaxCmds commands, each with any error and result
ShortLists ==
    UNION {[1..n -> {None, ErrMsg} \X ResultSet] : n \in 0..MaxCmds}
ShortCmds(f) ==
    [i \in 1..Len(f) |->
        [Action |-> ActionAt(i), Entity |-> EntityAt(i), CmdErr |-> f[i][1], CmdResult |-> f[i][2]]]

\* n commands, the k-th failing (none when k = 0), labels repeating with
\* period m
LongCmds(n, k, m) ==
    [i \in 1..n |->
        [Action |-> ActionAt(((i - 1) % m) + 1), Entity |-> EntityAt(((i - 1) % m) + 1),
         CmdErr |-> IF i = k THEN ErrMsg ELSE None, CmdResult |-> ResultAt(i)]]

Meta(a, p, l, r, d, cmds) ==
    [id |-> <<101, 49>>, author |-> a, profile |-> p, locale |-> l, revertible |-> r,
     date |-> d, cmds |-> cmds]

Authors == {<<>>, <<97, 108>>}
Profiles == {<<>>, <<112>>}
Locales == {<<>>, <<101, 117>>}

\* The records rendered: every short command list under one set of
\* metadata; every combination of metadata on lists of 1 and of 7 commands;
\* and lists of every length up to MaxLong, with distinct and with
\* repeating labels.
Records ==
    {Meta(<<97, 108>>, <<>>, <<>>, TRUE, 3, ShortCmds(f)) : f \in ShortLists}
    \cup {Meta(a, p, l, r, 3, LongCmds(n, k, MaxLong)) :
            a \in Authors, p \in Profiles, l \in Locales, r \in BOOLEAN,
            n \in {1, 7}, k \in 0..1}
    \cup {Meta(<<97, 108>>, <<>>, <<>>, FALSE, 50, LongCmds(n, k, m)) :
            n \in 0..MaxLong, k \in 0..2, m \in {5, MaxLong}}

InitPrint ==
    /\ t \in Records
    /\ noColor \in BOOLEAN
    /\ failAt \in 0..MaxFailAt
    /\ w = <<>>
    /\ result = NotRun
    /\ printer = "none"
    /\ pc = "ready"
    /\ err = None
    /\ items = <<>>
    /\ all = <<>>
    /\ out = <<>>

Begin(name) ==
    /\ pc = "ready"
    /\ pc' = "done"
    /\ printer' = name
    /\ UNCHANGED <<alignVars, t, err, noColor, failAt>>

FullPrint ==
    /\ Begin("full")
    /\ w' = fullPrint(w, t)
    /\ result' = None

StatPrint ==
    /\ Begin("stat")
    /\ \E order \in Orders(DOMAIN Stats(t).ActionEntityCount) : w' = statPrint(w, t, order)
    /\ result' = None

ShortPrint ==
    /\ Begin("short")
    /\ w' = shortPrint(w, t)
    /\ result' = None

DefaultPrint ==
    /\ Begin("default")
    /\ w' = defaultPrint(w, t)
    /\ result' = None

\* json.NewEncoder(w).Encode(t): nothing is written when the record cannot
\* be marshalled; otherwise the document is written with one Write call
RawJSONPrint ==
    /\ Begin("json")
    /\ \E marshals \in BOOLEAN :
          IF ~marshals
          THEN /\ w' = w
               /\ result' = JSONPrinterPrefix \o MarshalErr
          ELSE /\ w' = Put(w, JSONOf(t), "json", 0)
               /\ result' = IF w'[Len(w')].ok THEN None ELSE JSONPrinterPrefix \o WriteErr

IdOnlyPrint ==
    /\ Begin("id")
    /\ w' = idOnlyPrint(w, t)
    /\ result' = None

NextPrint ==
    \/ FullPrint
    \/ StatPrint
    \/ ShortPrint
    \/ DefaultPrint
    \/ RawJSONPrint
    \/ IdOnlyPrint

Spec == InitPrint /\ [][NextPrint]_vars

(* ---------------------- the error formatter alone --------------------- *)
RECURSIVE Msgs(_)
\* the messages of length n over tab, newline and a letter
Msgs(n) ==
    IF n = 0 THEN {<<>>}
    ELSE {<<c>> \o m : c \in {TAB, NL, 97}, m \in Msgs(n - 1)}

ErrInputs == {None} \cup UNION {Msgs(n) : n \in 0..MaxMsgLen}

InitErr ==
    /\ err \in ErrInputs
    /\ noColor \in BOOLEAN
    /\ failAt \in 0..MaxFailAt
    /\ w = <<>>
    /\ result = NotRun
    /\ printer = "none"
    /\ pc = "ready"
    /\ t = NoRecord
    /\ items = <<>>
    /\ all = <<>>
    /\ out = <<>>

\* one call of writeError(err, w)
WriteError ==
    /\ pc = "ready"
    /\ w' = writeError(w, err, 0)
    /\ pc' = "done"
    /\ UNCHANGED <<alignVars, t, err, noColor, failAt, result, printer>>

NextErr == WriteError

SpecErr == InitErr /\ [][NextErr]_vars

(* ------------------------ claims on the aligner ----------------------- *)
Entries(row) == Split(row, CommaSpace)
RowEntries == Concat([i \in 1..Len(out) |-> Entries(out[i])])
NItems == Cardinality(DOMAIN items)
IsSorted(s) == \A i \in 1..(Len(s) - 1) : Less(s[i], s[i + 1])
EntrySet == {CountLabel(items[l], l) : l \in DOMAIN items}

\* C1: the rows, split on ", " and concatenated in order, are exactly the
\* sorted sequence of all "<count> <label>" strings (nothing lost, nothing
\* duplicated), every row has at most 6 entries and all but the last have 6.
C1_RowsPartitionSorted ==
    (pc = "done" /\ NItems > 0) =>
        /\ RowEntries = SortStrings(SetToSeq(EntrySet))
        /\ \A i \in 1..Len(out) : Len(Entries(out[i])) <= max
        /\ \A i \in 1..(Len(out) - 1) : Len(Entries(out[i])) = max

\* C2: n entries give floor(n/6) rows of exactly 6 entries, then one row of
\* n mod 6 entries when n mod 6 > 0, and no row otherwise.
C2_RowCounts ==
    pc = "done" =>
        /\ Len(out) = (NItems \div max) + (IF NItems % max > 0 THEN 1 ELSE 0)
        /\ \A i \in 1..(NItems \div max) : Len(Entries(out[i])) = max
        /\ NItems % max > 0 => Len(Entries(out[Len(out)])) = NItems % max
        /\ NItems = 0 => out = <<>>

C2_Witness ==
    /\ pc = "done"
    /\ NItems = 13
    /\ Len(out) = 3
    /\ Len(Entries(out[3])) = 1

Data(log) == [k \in 1..Len(log) |-> log[k].data]
IsHeader(e) == e.src = "header"
IsBody(e) == e.src \in {"cmd", "err"}
IsRow(e) == e.src = "row"
Ran(names) == pc = "done" /\ printer \in names
NCmds == Len(t.cmds)
CmdLines(i) == SelectSeq(w, LAMBDA e : e.src = "cmd" /\ e.cmd = i)
ErrLines(i) == SelectSeq(w, LAMBDA e : e.src = "err" /\ e.cmd = i)
NumTabs(s) == Cardinality({j \in 1..Len(s) : s[j] = TAB})
\* the lines an error block must consist of: for each newline-delimited
\* segment of the message, a tab, four spaces and the segment without its
\* tabs, in the alerting colour
ErrBlock(e) ==
    IF e = None THEN <<>>
    ELSE LET segs == Split(e, <<NL>>) IN
         [j \in 1..Len(segs) |->
            renderRedFn(<<TAB>> \o Indent \o SelectSeq(segs[j], NotTab)) \o <<NL>>]

\* C3: when a write to the sink fails during print, print returns an error
\* and no later write is attempted.
C3_WriteFailureAborts ==
    Ran({"full", "stat", "short", "default", "json", "id"}) =>
        \A k \in 1..Len(w) : ~w[k].ok => (result # None /\ k = Len(w))

\* C4: in the Full and the Default renderer the tag on a command's line is
\* KO iff the command's error is present and OK iff it is absent, whatever
\* the result value.
C4_StatusTag ==
    Ran({"full", "default"}) =>
        \A i \in 1..NCmds :
            /\ Len(CmdLines(i)) = 1
            /\ HasPrefix(CmdLines(i)[1].data, Indent \o renderRedFn(KO) \o <<TAB>>)
                   <=> t.cmds[i].CmdErr # None
            /\ HasPrefix(CmdLines(i)[1].data, Indent \o renderGreenFn(OK) \o <<TAB>>)
                   <=> t.cmds[i].CmdErr = None

C4_Witness ==
    /\ Ran({"full"})
    /\ NCmds = 2
    /\ t.cmds[1].CmdErr # None /\ IsNonEmptyString(t.cmds[1].CmdResult)
    /\ t.cmds[2].CmdErr = None /\ t.cmds[2].CmdResult.kind = "nil"
    /\ HasPrefix(CmdLines(1)[1].data, Indent \o renderRedFn(KO))
    /\ HasPrefix(CmdLines(2)[1].data, Indent \o renderGreenFn(OK))

\* C5 as stated: one output line per newline-delimited segment of the
\* message, in order, none containing a tab; nothing for an absent error.
C5_NoTabInOutput ==
    pc = "done" /\ printer = "none" =>
        /\ err = None => w = <<>>
        /\ err # None =>
              /\ Len(w) = Len(Split(err, <<NL>>))
              /\ \A k \in 1..Len(w) : NumTabs(w[k].data) = 0

\* C5 amended: one output line per newline-delimited segment of the
\* message, in segment order; the tabs of the message are removed, and each
\* line contains exactly one tab, the leading one writeError adds ahead of
\* the four-space indent; nothing is written for an absent error.
C5_ErrorLines ==
    pc = "done" /\ printer = "none" =>
        /\ err = None => w = <<>>
        /\ err # None =>
              /\ Len(w) = Len(Split(err, <<NL>>))
              /\ Data(w) = ErrBlock(err)
              /\ \A k \in 1..Len(w) : NumTabs(w[k].data) = 1

C5_Witness ==
    /\ pc = "done" /\ printer = "none"
    /\ err # None
    /\ NumTabs(err) >= 1
    /\ Len(Split(err, <<NL>>)) >= 3
    /\ Len(w) >= 3

\* C6: in the Full and the Default renderer every command's error is
\* written as an error block right after that command's line and before
\* the next command's line, a command without error has no block, and
\* print returns no error.
C6_ErrorsRenderedInPlace ==
    Ran({"full", "default"}) =>
        LET body == SelectSeq(w, IsBody)
            wanted == Concat([i \in 1..NCmds |->
                         <<<<"cmd", i>>>> \o
                         [j \in 1..Len(ErrBlock(t.cmds[i].CmdErr)) |-> <<"err", i>>]])
        IN /\ result = None
           /\ [k \in 1..Len(body) |-> <<body[k].src, body[k].cmd>>] = wanted
           /\ \A i \in 1..NCmds : Data(ErrLines(i)) = ErrBlock(t.cmds[i].CmdErr)
           /\ \A k \in 1..Len(w) : \A l \in k..Len(w) : IsBody(w[k]) => IsBody(w[l])

C6_Witness ==
    /\ Ran({"default"})
    /\ NCmds = 2
    /\ t.cmds[1].CmdErr # None
    /\ t.cmds[2].CmdErr = None
    /\ Len(ErrLines(1)) = 2
    /\ result = None

HeaderText == Concat(Data(SelectSeq(w, IsHeader)))
Commands == <<SP, 99, 111, 109, 109, 97, 110, 100, 115>>
\* the header text after the identifier, the outcome tag and " - "
AfterDash ==
    SubSeq(HeaderText,
           Len(renderYellowFn(t.id)) + Len(Sprint(FgGreen, <<SP, 79, 75>>)) + 4,
           Len(HeaderText))
ShowsOneliner == HasPrefix(AfterDash, Stats(t).Oneliner \o <<SP, 40>>)
ShowsCount == HasPrefix(AfterDash, Itoa(NCmds) \o Commands \o <<SP, 40>>)

\* C7: the rich header shows the one-liner exactly when there is one
\* command, "<N> commands" for every N > 1, and never both.
C7_CountPhrase ==
    Ran({"short", "stat"}) =>
        /\ ShowsOneliner <=> NCmds = 1
        /\ NCmds > 1 => ShowsCount
        /\ ~(ShowsOneliner /\ ShowsCount)

C7_Witness ==
    /\ Ran({"short"})
    /\ NCmds = 1
    /\ ShowsOneliner
    /\ Stats(t).Oneliner # <<>>

Wrap(code, s) == IF noColor THEN s ELSE <<27, 91>> \o code \o <<109>> \o s \o <<27, 91, 48, 109>>
\* the segments of the rich header in the order the claim gives
ExpectedRich ==
    Concat(<<
        Wrap(FgYellow, t.id),
        IF NumKO(t.cmds) = 0 THEN Wrap(FgGreen, <<SP, 79, 75>>) ELSE Wrap(FgRed, <<SP, 75, 79>>),
        <<SP, 45, SP>>,
        IF NCmds = 1 THEN Stats(t).Oneliner ELSE Itoa(NCmds) \o Commands,
        <<SP, 40>> \o HumanizeTime(t.date) \o <<SP, 97, 103, 111, 41>>,
        IF t.author # <<>> THEN By \o Wrap(FgBlue, t.author) ELSE <<>>,
        IF t.profile # <<>> THEN WithProfile \o Wrap(FgBlue, t.profile) ELSE <<>>,
        IF t.locale # <<>> THEN In \o Wrap(FgBlue, t.locale) ELSE <<>>,
        IF ~t.revertible THEN NotRevertible ELSE <<>> >>)

\* C8: the rich header is its segments in the fixed order identifier,
\* outcome tag, " - ", count phrase, time, author, profile, locale,
\* revertibility, each optional one present iff its field is set, with no
\* trailing newline.
C8_HeaderOrder ==
    Ran({"short", "stat"}) =>
        /\ HeaderText = ExpectedRich
        /\ HeaderText[Len(HeaderText)] # NL
        /\ printer = "short" => Concat(Data(w)) = HeaderText

C8_Witness ==
    /\ Ran({"short"})
    /\ NCmds = 7
    /\ NumKO(t.cmds) = 1
    /\ t.author # <<>>
    /\ ~t.revertible
    /\ t.profile = <<>>

\* C9: the Stat renderer writes the rich header, one newline, and then the
\* aligner's rows, each on its own line after exactly one tab, iff there is
\* more than one command; otherwise nothing follows the newline.
C9_StatBody ==
    Ran({"stat"}) =>
        LET m == Stats(t).ActionEntityCount
            rows == alignActionEntityCount(m, SetToSeq(DOMAIN m))
        IN Data(w) =
              Data(writeRichLogHeader(<<>>, t)) \o << <<NL>> >> \o
              (IF NCmds > 1
               THEN [i \in 1..Len(rows) |-> <<TAB>> \o rows[i] \o <<NL>>]
               ELSE <<>>)

C9_Witness ==
    /\ Ran({"stat"})
    /\ NCmds = 13
    /\ Len(SelectSeq(w, IsRow)) = 3

====
